---- MODULE Spec2Model ----
(***************************************************************************)
(* Genesis presentation engine: engine.py (generate, main), the chart      *)
(* dispatcher of charts.py (render_chart) and the palette registry of      *)
(* design.py (PALETTES, get_palette).                                      *)
(*                                                                         *)
(* JSON objects (Python dicts) are functions from key strings to values;   *)
(* a key that is absent from the dict is absent from the DOMAIN.  Python   *)
(* lists are sequences.  A palette object is identified by the registry    *)
(* key under which PALETTES holds it (get_palette hands out the registered *)
(* object itself, not a copy).                                             *)
(*                                                                         *)
(* Three specifications:                                                   *)
(*   Spec      one interpreter in which generate, get_palette and          *)
(*             render_chart are called any number of times (the way        *)
(*             test_engine.py calls them);                                 *)
(*   SpecMain  one run of the engine.py process: main reads stdin once,    *)
(*             prints to stdout and exits.                                 *)
(*   SpecHelpers  one call of a helper on one input: _normalize_chart_spec, *)
(*             _normalize_table_heatmap, setup_matplotlib, the renderers   *)
(*             render_return_quilt, render_waterfall, render_hbar and      *)
(*             render_small_multiples up to the figure they hand to        *)
(*             Plotly, and assemble of pptx-assembler.py.                  *)
(***************************************************************************)
EXTENDS Integers, Sequences, FiniteSets, TLC

VARIABLES
    PALETTES,     \* design.PALETTES: registry key -> attributes of the palette object
    call,         \* the most recent call of generate / get_palette / render_chart / a helper
    pc,           \* "lib" (Spec), main's position "start" / "exited" (SpecMain),
                  \* or "helper" / "returned" (SpecHelpers)
    stdin,        \* text piped to the process
    stdout,       \* sequence of objects printed to stdout by main
    exit_status,  \* <<>> while running, <<code>> once the process has exited
    files         \* what exists on disk: chart directory, chart images, deck

vars == <<PALETTES, call, pc, stdin, stdout, exit_status, files>>

\* --------------------------------------------------------------------------
\* Bounds of the model
\* --------------------------------------------------------------------------
MaxSlides == 3
MaxDualCharts == 2
MaxAssets == 3
MaxValues == 3
MaxPanels == 3
MaxScreenshots == 3
MaxRows == 4
MaxAnnotations == 2

\* --------------------------------------------------------------------------
\* Python helpers
\* --------------------------------------------------------------------------
EmptyDict == [k \in {} |-> k]

\* dict.get(key, default)
Get(d, k, default) == IF k \in DOMAIN d THEN d[k] ELSE default

NoExc == [cls |-> "none", text |-> ""]

\* isinstance as a clause "except (KeyError, AttributeError, JSONDecodeError)"
\* would have it: a ValueError is not caught
IsException_Narrow(cls) == cls \in {"KeyError", "AttributeError", "JSONDecodeError"}

\* isinstance(e, Exception): SystemExit derives from BaseException only
IsException(cls) == cls \in {"ValueError", "KeyError", "AttributeError", "JSONDecodeError"}

\* "sub in s" for strings
Contains(s, sub) ==
    \E i \in 1..(Len(s) - Len(sub) + 1) : SubSeq(s, i, i + Len(sub) - 1) = sub

Whitespace == {" ", "\n", "\t"}

RECURSIVE LStrip(_)
LStrip(s) ==
    IF Len(s) > 0 /\ SubSeq(s, 1, 1) \in Whitespace
    THEN LStrip(SubSeq(s, 2, Len(s)))
    ELSE s

RECURSIVE RStrip(_)
RStrip(s) ==
    IF Len(s) > 0 /\ SubSeq(s, Len(s), Len(s)) \in Whitespace
    THEN RStrip(SubSeq(s, 1, Len(s) - 1))
    ELSE s

\* str.strip()
Strip(s) == RStrip(LStrip(s))

\* --------------------------------------------------------------------------
\* design.py
\* --------------------------------------------------------------------------
DefaultPaletteName == "crossinvest_navy_gold"

\* PALETTES as built at import time (the navy and gold attributes)
InitPALETTES ==
    [ crossinvest_navy_gold |-> [navy |-> "#24618e", gold |-> "#B8860B"],
      corporate_blue        |-> [navy |-> "#1B365D", gold |-> "#C5A55A"],
      minimal_bw            |-> [navy |-> "#1A1A1A", gold |-> "#888888"],
      crossinvest_dark      |-> [navy |-> "#0D2137", gold |-> "#F0B90B"],
      jpm_gttm              |-> [navy |-> "#004B87", gold |-> "#E8941A"],
      goldman_sachs         |-> [navy |-> "#00355F", gold |-> "#7399C6"],
      indosuez              |-> [navy |-> "#1B3764", gold |-> "#C5A76B"],
      blackrock_bii         |-> [navy |-> "#000000", gold |-> "#FFCE00"],
      okabe_ito             |-> [navy |-> "#000000", gold |-> "#E69F00"],
      blue_orange_diverging |-> [navy |-> "#2166AC", gold |-> "#F4A582"],
      swiss_institutional   |-> [navy |-> "#003366", gold |-> "#8d6e63"],
      rossignoli_editorial  |-> [navy |-> "#2C3E50", gold |-> "#E8792B"],
      morgan_stanley        |-> [navy |-> "#00263A", gold |-> "#C48A00"] ]

PaletteNames == DOMAIN InitPALETTES

\* get_palette falling back to another registered palette
get_palette_WrongDefault(P, name) ==
    IF name \in DOMAIN P THEN name ELSE "corporate_blue"

\* get_palette(name): the registry key of the palette object returned
get_palette(P, name) ==
    IF name \in DOMAIN P THEN name ELSE DefaultPaletteName

\* get_palette(): the name parameter defaults to "crossinvest_navy_gold"
get_palette_default(P) == get_palette(P, DefaultPaletteName)

\* --------------------------------------------------------------------------
\* charts.py
\* --------------------------------------------------------------------------
\* the 16 chart types
ChartTypes ==
    {"line", "bar", "hbar", "stacked_bar", "table_heatmap", "gauge",
     "donut_matrix", "waterfall", "return_quilt", "scatter", "sparkline_table",
     "lollipop", "dumbbell", "area", "bump", "small_multiples"}

\* the dispatch table with one entry pointing at a neighbour's renderer
renderers_Swapped ==
    [t \in ChartTypes |->
        IF t = "bump" THEN "render_area" ELSE "render_" \o t]

renderers ==
    [ line            |-> "render_line",
      bar             |-> "render_bar",
      hbar            |-> "render_hbar",
      stacked_bar     |-> "render_stacked_bar",
      table_heatmap   |-> "render_table_heatmap",
      gauge           |-> "render_gauge",
      donut_matrix    |-> "render_donut_matrix",
      waterfall       |-> "render_waterfall",
      return_quilt    |-> "render_return_quilt",
      scatter         |-> "render_scatter",
      sparkline_table |-> "render_sparkline_table",
      lollipop        |-> "render_lollipop",
      dumbbell        |-> "render_dumbbell",
      area            |-> "render_area",
      bump            |-> "render_bump",
      small_multiples |-> "render_small_multiples" ]

\* render_chart(chart_spec, palette, output_dir): the renderers it calls (at
\* most one), the path it returns, or the exception it raises
render_chart(chart_spec, output_dir) ==
    IF "type" \notin DOMAIN chart_spec
    THEN [exc |-> [cls |-> "KeyError", text |-> "'type'"], called |-> <<>>, path |-> ""]
    ELSE LET chart_type == chart_spec["type"]
             filename   == Get(chart_spec, "filename", "chart_" \o chart_type \o ".png")
             output_path == output_dir \o "/" \o filename
         IN  IF chart_type \notin DOMAIN renderers
             THEN [exc |-> [cls |-> "ValueError",
                            text |-> "Unknown chart type: " \o chart_type],
                   called |-> <<>>, path |-> ""]
             ELSE [exc |-> NoExc,
                   called |-> <<renderers[chart_type]>>,
                   path |-> output_path]

\* --------------------------------------------------------------------------
\* engine.py: chart spec normalization
\* --------------------------------------------------------------------------
\* d[k] = v
Put(d, k, v) == [x \in (DOMAIN d) \cup {k} |-> IF x = k THEN v ELSE d[x]]

\* d.pop(k, None), the dict that is left
Del(d, k) == [x \in (DOMAIN d) \ {k} |-> d[x]]

\* an hlines entry that is drawn solid and takes a fixed label
HlineOfReference_Solid(ref) ==
    [y |-> ref["value"], label |-> "Reference",
     color |-> Get(ref, "color", "#F0B90B"), style |-> "-"]

\* the hlines entry _normalize_chart_spec appends for the reference line ref
HlineOfReference(ref) ==
    [y     |-> ref["value"],
     label |-> Get(ref, "label", ""),
     color |-> Get(ref, "color", "#F0B90B"),
     style |-> "--"]

\* _normalize_chart_spec, step 1 (reference_line -> hlines).  config is
\* chart_spec.get("config", {}): when the chart spec has no "config" key the
\* dict that is changed is a temporary and the chart spec stays as it was.
ReferenceLineStep(chart_spec) ==
    IF "config" \notin DOMAIN chart_spec
    THEN chart_spec
    ELSE LET config == chart_spec["config"]
             popped == Del(config, "reference_line")
         IN  IF "reference_line" \in DOMAIN config /\ config["reference_line"] # EmptyDict
             THEN LET ref    == config["reference_line"]
                      hlines == Get(config, "hlines", <<>>)
                  IN  Put(chart_spec, "config",
                          Put(popped, "hlines", Append(hlines, HlineOfReference(ref))))
             ELSE Put(chart_spec, "config", popped)

\* The x and y of an annotation are JSON scalars: [str |-> s] for the string
\* s, [num |-> n] for the number n.
Str(s) == [str |-> s]

Num(n) == [num |-> n]

\* isinstance(v, str) and v in labels
IsLabel(v, labels) ==
    "str" \in DOMAIN v /\ \E k \in 1..Len(labels) : labels[k] = v.str

\* the 0-based position of the last label equal to s
LabelIndex_Last(labels, s) ==
    (CHOOSE k \in 1..Len(labels) :
        labels[k] = s /\ \A m \in 1..Len(labels) : labels[m] = s => m <= k) - 1

\* labels.index(s): the 0-based position of the first label equal to s
LabelIndex(labels, s) ==
    (CHOOSE k \in 1..Len(labels) :
        labels[k] = s /\ \A m \in 1..Len(labels) : labels[m] = s => k <= m) - 1

\* the body of the loop of step 2 for the annotation ann
NormalizeAnnotation(ann, chart_type, labels) ==
    IF "xy" \notin DOMAIN ann /\ "x" \in DOMAIN ann /\ "y" \in DOMAIN ann
    THEN LET x_val  == ann["x"]
             y_val  == ann["y"]
             popped == Del(Del(ann, "x"), "y")
         IN  IF chart_type \in {"bar", "line", "stacked_bar"}
             THEN Put(popped, "xy",
                      <<IF IsLabel(x_val, labels)
                        THEN Num(LabelIndex(labels, x_val.str)) ELSE x_val,
                        y_val>>)
             ELSE IF chart_type \in {"hbar"}
             THEN Put(popped, "xy",
                      <<x_val,
                        IF IsLabel(y_val, labels)
                        THEN Num(LabelIndex(labels, y_val.str)) ELSE y_val>>)
             ELSE Put(popped, "xy", <<x_val, y_val>>)
    ELSE ann

\* _normalize_chart_spec, step 2 (x / y of an annotation -> xy).  The
\* annotations are those of chart_spec["config"]; a chart spec without
\* "config" or without "annotations" has none.
AnnotationsStep(chart_spec) ==
    IF "config" \in DOMAIN chart_spec /\ "annotations" \in DOMAIN chart_spec["config"]
    THEN LET chart_type == Get(chart_spec, "type", "")
             labels     == Get(Get(chart_spec, "data", EmptyDict), "labels", <<>>)
             anns       == chart_spec["config"]["annotations"]
         IN  Put(chart_spec, "config",
                 Put(chart_spec["config"], "annotations",
                     [k \in 1..Len(anns) |->
                         NormalizeAnnotation(anns[k], chart_type, labels)]))
    ELSE chart_spec

\* _normalize_chart_spec: steps 1 and 2.  Steps 3 and 4 rewrite the data of
\* gauge and donut_matrix charts, fields that the chart specs of this model
\* do not carry.
normalize_chart_spec(chart_spec) == AnnotationsStep(ReferenceLineStep(chart_spec))

\* the one-character string U+2014 (em dash), written in ASCII
EmDash == "<U+2014>"

\* the position of the separator row in the list it was found in
SeparatorIndex_Raw(i, offset) == i

\* "sep_indices.append(i - offset)": i is the 0-based position of the
\* separator row, offset the number of separator rows before it
SeparatorIndex(i, offset) == i - offset

\* the loop of _normalize_table_heatmap over rows[i..]: acc.sep collects
\* i - offset (0-based) for every separator row, acc.clean the other rows
RECURSIVE SplitSeparators(_, _, _)
SplitSeparators(rows, i, acc) ==
    IF i > Len(rows)
    THEN acc
    ELSE IF rows[i][1] \in {"---", EmDash}
         THEN SplitSeparators(rows, i + 1,
                  [acc EXCEPT !.sep = Append(@, SeparatorIndex(i - 1, acc.offset)),
                              !.offset = @ + 1])
         ELSE SplitSeparators(rows, i + 1,
                  [acc EXCEPT !.clean = Append(@, rows[i])])

\* column widths of the 6-column scoreboard, in tenths
ScoreboardColWidths == <<22, 12, 9, 9, 9, 12>>

\* _normalize_table_heatmap
normalize_table_heatmap(chart_spec) ==
    LET data == Get(chart_spec, "data", EmptyDict)
        rows == Get(data, "rows", <<>>)
    IN  IF rows = <<>>
        THEN chart_spec
        ELSE LET split   == SplitSeparators(rows, 1,
                                [sep |-> <<>>, clean |-> <<>>, offset |-> 0])
                 data2   == IF split.sep # <<>>
                            THEN Put(Put(data, "rows", split.clean),
                                     "separators", split.sep)
                            ELSE data
                 spec2   == IF split.sep # <<>>
                            THEN Put(chart_spec, "data", data2)
                            ELSE chart_spec
                 config  == Get(spec2, "config", EmptyDict)
                 headers == Get(data2, "headers", <<>>)
             IN  IF Len(headers) = 6 /\ "col_widths" \notin DOMAIN config
                 THEN Put(spec2, "config",
                          Put(Put(Put(config, "col_widths", ScoreboardColWidths),
                                  "color_cols", <<2, 3, 4, 5>>),
                              "signal_col", 5))
                 ELSE spec2

\* --------------------------------------------------------------------------
\* engine.py: generate
\* --------------------------------------------------------------------------
\* The locals of generate while it walks the slide specs:
\*   prs      the slides added to the Presentation so far, one record per
\*            builder call (src = position of the slide spec in spec["slides"])
\*   renders  the renderer calls made so far
\*   images   the chart images on disk: path -> the render that wrote it last
\*   exc      the exception that ended the walk, NoExc while none was raised
InitLocals(images) ==
    [slide_count |-> 0, chart_count |-> 0, page_num |-> 0,
     prs |-> <<>>, renders |-> <<>>, images |-> images, exc |-> NoExc]

\* a branch that adds its slide and forgets slide_count += 1
BuildUnnumbered_NoCount(st, builder, i) ==
    [st EXCEPT !.prs = Append(@, [builder |-> builder, src |-> i])]

\* a builder without page number (build_cover, build_section_divider,
\* build_back_cover) adds one slide; slide_count += 1
BuildUnnumbered(st, builder, i) ==
    [st EXCEPT !.prs = Append(@, [builder |-> builder, src |-> i]),
               !.slide_count = @ + 1]

\* a builder that inserts its slide at the front of the deck
BuildNumbered_Prepend(st, builder, i) ==
    [st EXCEPT !.page_num = @ + 1,
               !.prs = <<[builder |-> builder, src |-> i,
                          page_num |-> st.page_num + 1]>> \o @,
               !.slide_count = @ + 1]

\* page_num += 1; a builder that goes through make_content_slide adds one
\* slide carrying that page number; slide_count += 1
BuildNumbered(st, builder, i) ==
    [st EXCEPT !.page_num = @ + 1,
               !.prs = Append(@, [builder |-> builder, src |-> i,
                                  page_num |-> st.page_num + 1]),
               !.slide_count = @ + 1]

\* a render that is not counted
Rendered_NoCount(st, chart_spec, r) ==
    [st EXCEPT !.renders = Append(@, [renderer |-> r.called[1],
                                      chart_spec |-> chart_spec,
                                      path |-> r.path]),
               !.images = Put(@, r.path, [renderer |-> r.called[1],
                                          chart_spec |-> chart_spec])]

\* one successful render_chart call: the image is written, chart_count += 1
Rendered(st, chart_spec, r) ==
    [st EXCEPT !.renders = Append(@, [renderer |-> r.called[1],
                                      chart_spec |-> chart_spec,
                                      path |-> r.path]),
               !.images = Put(@, r.path, [renderer |-> r.called[1],
                                          chart_spec |-> chart_spec]),
               !.chart_count = @ + 1]

\* "if chart_spec.get("type") == "table_heatmap": _normalize_table_heatmap"
TableHeatmapStep(chart_spec) ==
    IF Get(chart_spec, "type", "") = "table_heatmap"
    THEN normalize_table_heatmap(chart_spec)
    ELSE chart_spec

\* the "chart" branch from the render_chart call on: r is what render_chart
\* did with the normalized chart spec; st has page_num already incremented
ChartSlide(st, i, chart_spec, chart_num, r) ==
    IF r.exc # NoExc
    THEN [st EXCEPT !.exc = r.exc]
    ELSE [Rendered(st, chart_spec, r) EXCEPT
             !.prs = Append(@, [builder    |-> "build_chart_slide",
                                src        |-> i,
                                page_num   |-> st.page_num,
                                chart_path |-> r.path,
                                chart_num  |-> chart_num]),
             !.slide_count = @ + 1]

\* the "chart" branch once the chart spec is normalized
RenderChartSlide(st, i, chart_spec, chart_num, chart_dir) ==
    ChartSlide(st, i, chart_spec, chart_num, render_chart(chart_spec, chart_dir))

\* a "chart" branch that numbers an unnumbered chart after the page
ChartBranch_PageAsNumber(slide_spec, i, st, chart_dir) ==
    RenderChartSlide([st EXCEPT !.page_num = @ + 1], i,
                     TableHeatmapStep(normalize_chart_spec(
                         Get(slide_spec, "chart", EmptyDict))),
                     Get(slide_spec, "chart_num", st.page_num + 1),
                     chart_dir)

\* the "chart" branch
ChartBranch(slide_spec, i, st, chart_dir) ==
    RenderChartSlide([st EXCEPT !.page_num = @ + 1], i,
                     TableHeatmapStep(normalize_chart_spec(
                         Get(slide_spec, "chart", EmptyDict))),
                     Get(slide_spec, "chart_num", st.chart_count + 1),
                     chart_dir)

\* one pass of the inner loop of the "dual_chart" branch: cs is the
\* normalized chart spec, r what render_chart did with it
DualStep(acc, cs, r) ==
    IF r.exc # NoExc
    THEN [acc EXCEPT !.st.exc = r.exc]
    ELSE [st |-> Rendered(acc.st, cs, r), paths |-> Append(acc.paths, r.path)]

RenderDual(acc, cs, chart_dir) == DualStep(acc, cs, render_chart(cs, chart_dir))

\* the inner loop of the "dual_chart" branch over chart_specs[j..]; an
\* exception leaves the loop
RECURSIVE DualLoop(_, _, _, _)
DualLoop(chart_specs, j, acc, chart_dir) ==
    IF j > Len(chart_specs) \/ acc.st.exc # NoExc
    THEN acc
    ELSE DualLoop(chart_specs, j + 1,
                  RenderDual(acc, normalize_chart_spec(chart_specs[j]), chart_dir),
                  chart_dir)

\* the pictures build_dual_chart_slide puts on the slide: the image found at
\* chart_paths[0] on the left (first entry) and the image found at
\* chart_paths[1] on the right, read from disk when the slide is built, that
\* is after every chart of the slide has been rendered
DualPictures(loop) ==
    [k \in 1..(IF Len(loop.paths) < 2 THEN Len(loop.paths) ELSE 2) |->
        loop.st.images[loop.paths[k]]]

\* the "dual_chart" branch after its loop
DualChartSlide(i, loop) ==
    IF loop.st.exc # NoExc
    THEN loop.st
    ELSE [loop.st EXCEPT !.prs = Append(@, [builder     |-> "build_dual_chart_slide",
                                            src         |-> i,
                                            page_num    |-> loop.st.page_num,
                                            chart_paths |-> loop.paths,
                                            pictures    |-> DualPictures(loop)]),
                         !.slide_count = @ + 1]

\* a "dual_chart" branch that reuses the page number of the slide before
DualChartBranch_SamePage(slide_spec, i, st, chart_dir) ==
    DualChartSlide(i, DualLoop(Get(slide_spec, "charts", <<>>), 1,
                               [st |-> st, paths |-> <<>>],
                               chart_dir))

\* the "dual_chart" branch
DualChartBranch(slide_spec, i, st, chart_dir) ==
    DualChartSlide(i, DualLoop(Get(slide_spec, "charts", <<>>), 1,
                               [st |-> [st EXCEPT !.page_num = @ + 1],
                                paths |-> <<>>],
                               chart_dir))

\* the body of the loop "for slide_spec in slides": the if / elif chain
SlideStep(slide_spec, i, st, chart_dir) ==
    LET slide_type == Get(slide_spec, "type", "text")
    IN  CASE slide_type = "cover"             -> BuildUnnumbered(st, "build_cover", i)
          [] slide_type = "executive_summary" -> BuildNumbered(st, "build_executive_summary", i)
          [] slide_type = "chart"             -> ChartBranch(slide_spec, i, st, chart_dir)
          [] slide_type = "text"              -> BuildNumbered(st, "build_text_slide", i)
          [] slide_type = "sources"           -> BuildNumbered(st, "build_sources_slide", i)
          [] slide_type = "section_divider"   -> BuildUnnumbered(st, "build_section_divider", i)
          [] slide_type = "kpi_dashboard"     -> BuildNumbered(st, "build_kpi_dashboard", i)
          [] slide_type = "news"              -> BuildNumbered(st, "build_news_slide", i)
          [] slide_type = "image"             -> BuildNumbered(st, "build_image_slide", i)
          [] slide_type = "dual_chart"        -> DualChartBranch(slide_spec, i, st, chart_dir)
          [] slide_type = "callout"           -> BuildNumbered(st, "build_callout_slide", i)
          [] slide_type = "back_cover"        -> BuildUnnumbered(st, "build_back_cover", i)
          [] OTHER                            -> st  \* warning on stderr, skipped

\* the slide builders templates.py defines
TemplateBuilders ==
    {"build_cover", "build_executive_summary", "build_chart_slide",
     "build_text_slide", "build_sources_slide", "build_back_cover",
     "build_section_divider", "build_kpi_dashboard", "build_news_slide",
     "build_image_slide", "build_dual_chart_slide", "build_callout_slide",
     "build_editorial", "build_quote_slide", "build_chart_grid"}

\* for slide_spec in slides: ... ; an exception leaves the loop
RECURSIVE ProcessSlides(_, _, _, _)
ProcessSlides(slides, i, st, chart_dir) ==
    IF i > Len(slides) \/ st.exc # NoExc
    THEN st
    ELSE ProcessSlides(slides, i + 1, SlideStep(slides[i], i, st, chart_dir), chart_dir)

\* "for key, value in design_overrides.items(): if hasattr(palette, key):
\* setattr(palette, key, value)" on the palette object registered under ref
ApplyDesign(P, ref, design_overrides) ==
    [P EXCEPT ![ref] = [a \in DOMAIN P[ref] |->
                           IF a \in DOMAIN design_overrides
                           THEN design_overrides[a]
                           ELSE P[ref][a]]]

NoFiles == [dirs |-> {}, images |-> EmptyDict, deck |-> <<>>]

\* the end of generate: st is where the loop over the slides stopped.  The
\* chart directory exists, and unless the loop raised the deck is saved and
\* the result returned (without its "duration").
SaveAndReturn(P, F, output_path, chart_dir, st) ==
    IF st.exc # NoExc
    THEN [exc |-> st.exc, result |-> EmptyDict, PALETTES |-> P,
          files |-> [F EXCEPT !.dirs = @ \cup {chart_dir}, !.images = st.images],
          locals |-> st]
    ELSE [exc |-> NoExc,
          result |-> [success |-> TRUE, path |-> output_path,
                      slides |-> st.slide_count, charts |-> st.chart_count],
          PALETTES |-> P,
          files |-> [dirs   |-> F.dirs \cup {chart_dir},
                     images |-> st.images,
                     deck   |-> <<[path |-> output_path, slides |-> st.prs]>>],
          locals |-> st]

\* generate on a dict
GenerateDict(P, F, doc, meta, chart_dir) ==
    SaveAndReturn(
        ApplyDesign(P, get_palette(P, Get(meta, "palette", "crossinvest_navy_gold")),
                    Get(doc, "design", EmptyDict)),
        F,
        Get(doc, "output_path", "/tmp/presentation.pptx"),
        chart_dir,
        ProcessSlides(Get(doc, "slides", <<>>), 1, InitLocals(F.images), chart_dir))

\* generate(spec), run against the registry P and the disk F.  spec is a JSON
\* value: [type |-> "dict", items |-> the dict] or, for a value that is not
\* an object, [type |-> the name of its Python type], on which spec.get
\* raises.  The result: exc (NoExc when generate returned), result (the dict
\* returned), the registry and the disk afterwards, and the locals at the
\* point where generate returned or raised.
generate(P, F, spec) ==
    IF spec.type # "dict"
    THEN [exc |-> [cls |-> "AttributeError",
                   text |-> "'" \o spec.type \o "' object has no attribute 'get'"],
          result |-> EmptyDict, PALETTES |-> P, files |-> F,
          locals |-> InitLocals(F.images)]
    ELSE GenerateDict(P, F, spec.items,
                      Get(spec.items, "meta", EmptyDict),
                      Get(spec.items, "chart_dir", "/tmp/genesis_charts"))

\* --------------------------------------------------------------------------
\* engine.py: main
\* --------------------------------------------------------------------------
\* The text on stdin is [text |-> the characters, json |-> <<v>>] when the
\* text is the JSON encoding of the value v, and json |-> <<>> when it is not
\* valid JSON.

\* json.loads(raw): the value, or the JSONDecodeError
json_loads(raw) ==
    IF raw.json = <<>>
    THEN [exc |-> [cls |-> "JSONDecodeError",
                   text |-> "Expecting value: line 1 column 1 (char 0)"],
          value |-> <<>>]
    ELSE [exc |-> NoExc, value |-> raw.json]

NoCall == [op |-> "none"]

\* the record kept of a generate call
GenerateCall(spec, g) ==
    [op |-> "generate", spec |-> spec, exc |-> g.exc, result |-> g.result,
     locals |-> g.locals]

\* a failure result without the counts
ErrorResult_NoCounts(error) ==
    [success |-> FALSE, error |-> error]

\* the result object printed on a failure
ErrorResult(error) ==
    [success |-> FALSE, error |-> error, slides |-> 0, charts |-> 0]

\* "result = generate(spec); print(json.dumps(result))": g is what generate did
PrintResult(spec, g) ==
    [stdout |-> IF g.exc = NoExc THEN <<g.result>> ELSE <<>>,
     exc |-> g.exc,
     call |-> GenerateCall(spec, g),
     PALETTES |-> g.PALETTES, files |-> g.files]

\* "spec = json.loads(raw)" and what follows it in the try block
ParseAndGenerate(P, F, parsed) ==
    IF parsed.exc # NoExc
    THEN [stdout |-> <<>>, exc |-> parsed.exc,
          call |-> NoCall, PALETTES |-> P, files |-> F]
    ELSE PrintResult(parsed.value[1], generate(P, F, parsed.value[1]))

\* the try block of main: what it printed, the exception that left it (NoExc
\* when it ran to its end; sys.exit(1) raises SystemExit), and the generate
\* call it made
TryBlock(P, F, raw) ==
    IF Strip(raw.text) = ""
    THEN [stdout |-> <<ErrorResult("Empty input")>>,
          exc |-> [cls |-> "SystemExit", text |-> "1"],
          call |-> NoCall, PALETTES |-> P, files |-> F]
    ELSE ParseAndGenerate(P, F, json_loads(raw))

\* the except clauses in the other order: "except Exception" comes first and
\* takes the JSONDecodeError as well
ExceptClause_ExceptionFirst(cls) ==
    IF IsException(cls) THEN "Exception"
    ELSE IF cls = "JSONDecodeError" THEN "JSONDecodeError"
    ELSE "propagate"

\* a bare "except:" as the second clause: it takes SystemExit too
ExceptClause_CatchAll(cls) ==
    IF cls = "JSONDecodeError" THEN "JSONDecodeError" ELSE "Exception"

\* which except clause of main takes an exception of class cls: the clauses
\* are tried in order, "except json.JSONDecodeError" before "except Exception"
ExceptClause(cls) ==
    IF cls = "JSONDecodeError" THEN "JSONDecodeError"
    ELSE IF IsException(cls) THEN "Exception"
    ELSE "propagate"

\* the except clauses of main and the exit of the process: body is what the
\* try block did, clause the except clause that takes its exception
Handlers(body, clause) ==
    [stdout |->
        CASE clause = "JSONDecodeError" ->
               Append(body.stdout, ErrorResult("Invalid JSON: " \o body.exc.text))
          [] clause = "Exception" ->
               Append(body.stdout, ErrorResult(body.exc.text))
          [] OTHER -> body.stdout,
     \* falling off the end of main exits with 0; the handlers call
     \* sys.exit(1); a SystemExit(1) that no clause takes ends the process
     exit_status |-> IF clause = "none" THEN <<0>> ELSE <<1>>,
     call |-> body.call, PALETTES |-> body.PALETTES, files |-> body.files]

ExceptClauses(body) ==
    Handlers(body, IF body.exc = NoExc THEN "none" ELSE ExceptClause(body.exc.cls))

\* main(): everything from reading stdin to the exit of the process
main(P, F, raw) == ExceptClauses(TryBlock(P, F, raw))

\* --------------------------------------------------------------------------
\* Inputs
\* --------------------------------------------------------------------------
SeqsUpTo(S, n) == UNION {[1..k -> S] : k \in 0..n}

Dict(d) == [type |-> "dict", items |-> d]

\* slide specs without a chart: the ten types of the if / elif chain that
\* take no chart, an unknown type, and a slide spec without "type"
PlainSlideSpecs ==
    {[type |-> t] : t \in {"cover", "executive_summary", "text", "sources",
                           "section_divider", "kpi_dashboard", "news", "image",
                           "callout", "back_cover", "unknown_slide_type"}}
    \cup {EmptyDict}

ChartSlideSpecs ==
    {[type |-> "chart", chart |-> c] :
        c \in {[type |-> "line"], [type |-> "table_heatmap"], [type |-> "unknown_type"]}}
    \cup {[type |-> "chart"]}
    \cup {[type |-> "chart", chart |-> [type |-> "line"], chart_num |-> 7]}

\* the "charts" lists of dual_chart slides: up to MaxDualCharts chart specs,
\* at most one of them of an unknown type (the first such entry ends the call)
DualChartLists ==
    {cs \in SeqsUpTo({[type |-> "bar"], [type |-> "unknown_type"]}, MaxDualCharts) :
        Cardinality({j \in 1..Len(cs) : cs[j]["type"] = "unknown_type"}) <= 1}

DualChartSlideSpecs ==
    {[type |-> "dual_chart", charts |-> cs] : cs \in DualChartLists}
    \cup {[type |-> "dual_chart"]}

SlideSpecs == PlainSlideSpecs \cup ChartSlideSpecs \cup DualChartSlideSpecs

\* the texts piped to the process
StdinTexts ==
    {[text |-> "", json |-> <<>>],
     [text |-> " \n", json |-> <<>>],
     [text |-> "not valid json {{{", json |-> <<>>],
     [text |-> "[]", json |-> <<[type |-> "list"]>>],
     [text |-> "{}", json |-> <<Dict(EmptyDict)>>]}
    \cup {[text |-> "{\"slides\": [...]}", json |-> <<Dict([slides |-> sl])>>] :
             sl \in SeqsUpTo(SlideSpecs, MaxSlides)}

\* --------------------------------------------------------------------------
\* SpecMain: one run of the engine.py process
\* --------------------------------------------------------------------------
InitMain ==
    /\ PALETTES = InitPALETTES
    /\ call = NoCall
    /\ pc = "start"
    /\ stdin = [text |-> "", json |-> <<>>]
    /\ stdout = <<>>
    /\ exit_status = <<>>
    /\ files = NoFiles

\* the process has run: m is what main did with the text raw
Exit(raw, m) ==
    /\ stdin' = raw
    /\ stdout' = m.stdout
    /\ exit_status' = m.exit_status
    /\ call' = m.call
    /\ PALETTES' = m.PALETTES
    /\ files' = m.files
    /\ pc' = "exited"

Main ==
    /\ pc = "start"
    /\ \E raw \in StdinTexts : Exit(raw, main(PALETTES, files, raw))

NextMain == Main

SpecMain == InitMain /\ [][NextMain]_vars

\* --------------------------------------------------------------------------
\* Spec: generate, get_palette and render_chart called in one interpreter
\* --------------------------------------------------------------------------
\* Every call works in a fresh temporary directory (tempfile.mkdtemp in the
\* tests): files is what the call left in it.

\* arguments of generate: the palette name, the design overrides, the slides
LibMetas == {EmptyDict, [palette |-> "corporate_blue"], [palette |-> "nonexistent"]}

LibDesigns ==
    {[navy |-> "#000000"], [gold |-> "#FFFFFF"], [accent |-> "#123456"]}

\* a table_heatmap chart spec with an inline separator row
LibScoreboard ==
    [type |-> "table_heatmap",
     data |-> [headers |-> <<"Market", "1W", "Signal">>,
               rows |-> <<<<"US", "+1.2%", "Overbought">>, <<"---", "", "">>,
                          <<"Europe", "-0.4%", "Oversold">>>>]]

\* a line chart spec with a reference line and an annotation to normalize
LibLine ==
    [type |-> "line",
     data |-> [labels |-> <<"Q1", "Q2">>],
     config |-> [reference_line |-> [value |-> 100],
                 annotations |-> <<[text |-> "Peak", x |-> Str("Q2"), y |-> Num(5)]>>]]

\* two bar chart specs that differ in their source text
LibBars ==
    <<[type |-> "bar", source |-> "Gold"], [type |-> "bar", source |-> "Bitcoin"]>>

LibSlides ==
    {<<>>, <<[type |-> "cover"]>>,
     <<[type |-> "chart", chart |-> [type |-> "unknown_type"]]>>,
     <<[type |-> "chart", chart |-> LibScoreboard]>>,
     <<[type |-> "chart", chart |-> LibLine]>>,
     <<[type |-> "dual_chart", charts |-> <<LibScoreboard, LibLine>>]>>,
     <<[type |-> "dual_chart", charts |-> LibBars]>>,
     <<[type |-> "dual_chart",
        charts |-> <<[type |-> "bar", source |-> "Gold", filename |-> "left.png"],
                     [type |-> "bar", source |-> "Bitcoin", filename |-> "right.png"]>>]>>,
     <<[type |-> "dual_chart", charts |-> <<LibLine, LibBars[1]>>],
       [type |-> "chart", chart |-> LibBars[2]]>>,
     <<[type |-> "editorial"], [type |-> "quote"], [type |-> "chart_grid"]>>}

LibSpecs ==
    {Dict([meta |-> m, slides |-> sl]) : m \in LibMetas, sl \in LibSlides}
    \cup {Dict([meta |-> m, design |-> d, slides |-> sl]) :
             m \in LibMetas, d \in LibDesigns, sl \in LibSlides}

\* arguments of get_palette: <<>> for the call without argument
LibPaletteArgs ==
    {<<>>} \cup {<<n>> : n \in PaletteNames \cup {"nonexistent", ""}}

\* arguments of render_chart
LibChartSpecs ==
    {[type |-> t] : t \in (DOMAIN renderers) \cup {"unknown_type", "pie", ""}}
    \cup {[type |-> "line", filename |-> "dispatch_test.png"], EmptyDict}

Init ==
    /\ PALETTES = InitPALETTES
    /\ call = NoCall
    /\ pc = "lib"
    /\ stdin = [text |-> "", json |-> <<>>]
    /\ stdout = <<>>
    /\ exit_status = <<>>
    /\ files = NoFiles

\* generate has been called: g is what it did
Called(spec, g) ==
    /\ call' = GenerateCall(spec, g)
    /\ PALETTES' = g.PALETTES
    /\ files' = g.files
    /\ UNCHANGED <<pc, stdin, stdout, exit_status>>

Generate ==
    /\ pc = "lib"
    /\ \E spec \in LibSpecs : Called(spec, generate(PALETTES, NoFiles, spec))

GetPalette ==
    /\ pc = "lib"
    /\ \E arg \in LibPaletteArgs :
          LET ref == IF arg = <<>>
                     THEN get_palette_default(PALETTES)
                     ELSE get_palette(PALETTES, arg[1])
          IN  call' = [op |-> "get_palette", arg |-> arg, ref |-> ref,
                       palette |-> PALETTES[ref]]
    /\ files' = NoFiles
    /\ UNCHANGED <<PALETTES, pc, stdin, stdout, exit_status>>

RenderChart ==
    /\ pc = "lib"
    /\ \E chart_spec \in LibChartSpecs :
          LET r == render_chart(chart_spec, "/tmp/genesis_test_charts")
          IN  /\ call' = [op |-> "render_chart", chart_spec |-> chart_spec,
                          exc |-> r.exc, called |-> r.called, path |-> r.path]
              /\ files' = IF r.exc = NoExc
                          THEN [NoFiles EXCEPT !.images =
                                   Put(@, r.path, [renderer |-> r.called[1],
                                                   chart_spec |-> chart_spec])]
                          ELSE NoFiles
    /\ UNCHANGED <<PALETTES, pc, stdin, stdout, exit_status>>

Next == Generate \/ GetPalette \/ RenderChart

Spec == Init /\ [][Next]_vars

\* --------------------------------------------------------------------------
\* design.py: setup_matplotlib
\* --------------------------------------------------------------------------
\* setup_matplotlib(palette=None): the body is "pass", so the call returns
\* None (<<>>) whatever the palette; <<h>> would be a plotting handle h
setup_matplotlib(palette) == <<>>

\* --------------------------------------------------------------------------
\* SpecHelpers: one call of a helper of the engine (a normalizer, a chart
\* renderer up to the figure it hands to Plotly, setup_matplotlib, or the
\* assemble function of pptx-assembler.py) on one input
\* --------------------------------------------------------------------------
InitHelpers ==
    /\ PALETTES = InitPALETTES
    /\ call = NoCall
    /\ pc = "helper"
    /\ stdin = [text |-> "", json |-> <<>>]
    /\ stdout = <<>>
    /\ exit_status = <<>>
    /\ files = NoFiles

\* the helper has returned or raised: c is the record of the call
Returned(c) ==
    /\ call' = c
    /\ pc' = "returned"
    /\ UNCHANGED <<PALETTES, stdin, stdout, exit_status, files>>

\* setup_matplotlib() and setup_matplotlib(palette)
SetupMatplotlib ==
    /\ pc = "helper"
    /\ \E arg \in {<<>>} \cup {<<get_palette(PALETTES, n)>> : n \in PaletteNames} :
          Returned([op |-> "setup_matplotlib", arg |-> arg,
                    returned |-> setup_matplotlib(arg)])

\* the chart specs handed to _normalize_chart_spec: without config, and with
\* a config that has or lacks "hlines" and "reference_line"
HlineEntries ==
    {[y |-> 50, label |-> "Target", color |-> "#FF0000", style |-> "-"],
     [y |-> 0, label |-> "", color |-> "#F0B90B", style |-> "--"]}

ReferenceLines ==
    {EmptyDict}
    \cup {[value |-> v] : v \in {0, 100}}
    \cup {[value |-> v, label |-> "Neutral"] : v \in {0, 100}}
    \cup {[value |-> v, color |-> "#00FF00"] : v \in {0, 100}}
    \cup {[value |-> v, label |-> "Neutral", color |-> "#00FF00"] : v \in {0, 100}}

NormalizerConfigs ==
    {[title |-> "GDP"]}
    \cup {[title |-> "GDP", hlines |-> h] : h \in SeqsUpTo(HlineEntries, 2)}
    \cup {[title |-> "GDP", reference_line |-> r] : r \in ReferenceLines}
    \cup {[title |-> "GDP", hlines |-> h, reference_line |-> r] :
             h \in SeqsUpTo(HlineEntries, 2), r \in ReferenceLines}

NormalizerChartSpecs ==
    {[type |-> "line"]}
    \cup {[type |-> "line", config |-> c] : c \in NormalizerConfigs}

\* annotations: with x and y (a label, another string, a number), with an
\* xy already there, with only one of x and y
Annotations ==
    {[text |-> "Peak", x |-> Str("Q1"), y |-> Num(5)],
     [text |-> "Peak", x |-> Str("Q2"), y |-> Str("Q1")],
     [text |-> "Peak", x |-> Num(1), y |-> Str("Q2")],
     [text |-> "Peak", x |-> Str("2024"), y |-> Num(5)],
     [text |-> "Peak", xy |-> <<Num(0), Num(5)>>, x |-> Str("Q1"), y |-> Num(7)],
     [text |-> "Peak", xy |-> <<Str("Q1"), Num(5)>>],
     [text |-> "Peak", x |-> Str("Q1")],
     [text |-> "Peak", y |-> Str("Q1")]}

\* chart specs with annotations: the chart types step 2 tells apart, one it
\* does not, and a chart spec without type; labels with a repeated entry,
\* and no data at all; with and without a reference line
AnnotatedChartSpecs ==
    {[type |-> t, data |-> [labels |-> <<"Q2", "Q1", "Q3", "Q1">>],
      config |-> [annotations |-> a]] :
        t \in {"line", "bar", "stacked_bar", "hbar", "scatter"},
        a \in SeqsUpTo(Annotations, MaxAnnotations)}
    \cup {[type |-> "line", config |-> [annotations |-> a]] :
             a \in SeqsUpTo(Annotations, MaxAnnotations)}
    \cup {[data |-> [labels |-> <<"Q2", "Q1", "Q3", "Q1">>],
           config |-> [annotations |-> a]] :
             a \in SeqsUpTo(Annotations, MaxAnnotations)}
    \cup {[type |-> "bar", data |-> [labels |-> <<"Q2", "Q1", "Q3", "Q1">>],
           config |-> [annotations |-> a, reference_line |-> [value |-> 100]]] :
             a \in SeqsUpTo(Annotations, MaxAnnotations)}

\* _normalize_chart_spec(chart_spec): the chart spec is changed in place
NormalizeChartSpec ==
    /\ pc = "helper"
    /\ \E chart_spec \in NormalizerChartSpecs \cup AnnotatedChartSpecs :
          Returned([op |-> "_normalize_chart_spec", before |-> chart_spec,
                    after |-> normalize_chart_spec(chart_spec)])

\* --------------------------------------------------------------------------
\* charts.py: render_return_quilt
\* --------------------------------------------------------------------------
\* Numbers with one decimal (returns in percent) are integers counting
\* tenths: 287 is 28.7.

\* f"{val:+.1f}" for val given in tenths
FormatSigned1f(val) ==
    LET a == IF val < 0 THEN 0 - val ELSE val
    IN  (IF val < 0 THEN "-" ELSE "+") \o ToString(a \div 10) \o "." \o ToString(a % 10)

\* np.argsort(col): the ways to list the indices of col by ascending value.
\* The default sort kind is not stable, so equal values may come out in
\* either order.
ArgSorts(col) ==
    {p \in Permutations(1..Len(col)) :
        \A k \in 1..(Len(col) - 1) : col[p[k]] <= col[p[k + 1]]}

\* a slice that keeps the order it was given
Reversed_Kept(s) == s

\* s[::-1]
Reversed(s) == [k \in 1..Len(s) |-> s[Len(s) + 1 - k]]

\* render_return_quilt up to the go.Heatmap trace: argsorts[yi] is what
\* np.argsort returned for the year yi.  z is z_matrix, text is text_matrix
\* (one row per rank, one column per year).
render_return_quilt(data, argsorts) ==
    LET years    == data["years"]
        assets   == data["assets"]
        returns  == data["returns"]
        n_years  == Len(years)
        n_assets == Len(assets)
        sorted_indices == [yi \in 1..n_years |-> Reversed(argsorts[yi])]
        sorted_returns == [yi \in 1..n_years |->
                              [r \in 1..n_assets |-> returns[yi][sorted_indices[yi][r]]]]
        sorted_assets  == [yi \in 1..n_years |->
                              [r \in 1..n_assets |-> assets[sorted_indices[yi][r]]]]
    IN  [z    |-> [rank \in 1..n_assets |->
                     [yi \in 1..n_years |-> sorted_returns[yi][rank]]],
         text |-> [rank \in 1..n_assets |->
                     [yi \in 1..n_years |->
                         sorted_assets[yi][rank] \o "<br>"
                         \o FormatSigned1f(sorted_returns[yi][rank]) \o "%"]],
         x    |-> years]

\* the data of a quilt: up to MaxAssets assets with one return per asset and
\* year (equal returns included), over one year or over two; the second
\* year ranks the assets differently: its returns are those of the first
\* year moved on by one asset, or listed backwards
QuiltAssetNames == <<"US Equity", "Bonds", "Gold", "Cash", "EM Equity">>

QuiltColumns == SeqsUpTo({0 - 15, 0, 25}, MaxAssets) \ {<<>>}

MovedOn(col) == [k \in 1..Len(col) |-> col[((k + Len(col) - 2) % Len(col)) + 1]]

QuiltData ==
    {[years |-> <<"2023">>, assets |-> SubSeq(QuiltAssetNames, 1, Len(col)),
      returns |-> <<col>>] : col \in QuiltColumns}
    \cup {[years |-> <<"2022", "2023">>, assets |-> SubSeq(QuiltAssetNames, 1, Len(col)),
           returns |-> <<col, MovedOn(col)>>] : col \in QuiltColumns}
    \cup {[years |-> <<"2022", "2023">>, assets |-> SubSeq(QuiltAssetNames, 1, Len(col)),
           returns |-> <<col, Reversed(col)>>] : col \in QuiltColumns}

\* what np.argsort can return for the years of data
QuiltArgSorts(data) ==
    {o \in [1..Len(data["years"]) -> Permutations(1..Len(data["assets"]))] :
        \A yi \in 1..Len(data["years"]) : o[yi] \in ArgSorts(data["returns"][yi])}

RenderReturnQuilt ==
    /\ pc = "helper"
    /\ \E data \in QuiltData : \E argsorts \in QuiltArgSorts(data) :
          Returned([op |-> "render_return_quilt", data |-> data,
                    fig |-> render_return_quilt(data, argsorts)])

\* --------------------------------------------------------------------------
\* charts.py: render_waterfall
\* --------------------------------------------------------------------------
Min(a, b) == IF a < b THEN a ELSE b

\* data.get("is_total", [i == 0 or i == len(values) - 1 for i in range(len(values))])
WaterfallIsTotal(data) ==
    IF "is_total" \in DOMAIN data
    THEN data["is_total"]
    ELSE [i \in 1..Len(data["values"]) |-> i = 1 \/ i = Len(data["values"])]

\* render_waterfall up to the go.Waterfall trace.  The measure loop runs over
\* is_total and reads values[i] for every entry that is not flagged (an
\* IndexError when values is shorter); the text loop runs over
\* zip(values, is_total), which stops at the shorter of the two.
render_waterfall(data, config) ==
    LET labels   == data["labels"]
        values   == data["values"]
        is_total == WaterfallIsTotal(data)
        suffix   == Get(config, "value_suffix", "")
    IN  IF \E i \in 1..Len(is_total) : ~is_total[i] /\ i > Len(values)
        THEN [exc |-> [cls |-> "IndexError", text |-> "list index out of range"],
              x |-> <<>>, y |-> <<>>, measure |-> <<>>, text |-> <<>>]
        ELSE [exc |-> NoExc,
              x |-> labels,
              y |-> values,
              measure |-> [i \in 1..Len(is_total) |->
                              IF is_total[i] THEN "absolute"
                              ELSE IF values[i] >= 0 THEN "relative"
                              ELSE "relative"],
              text |-> [k \in 1..Min(Len(values), Len(is_total)) |->
                           IF is_total[k]
                           THEN ToString(values[k]) \o suffix
                           ELSE (IF values[k] > 0 THEN "+" ELSE "")
                                \o ToString(values[k]) \o suffix]]

\* the data of a waterfall: up to MaxValues values with their labels, with
\* or without an is_total list (of any length up to MaxValues)
WaterfallLabels == <<"Start", "Equities", "Bonds", "FX", "End">>

WaterfallData ==
    {[labels |-> SubSeq(WaterfallLabels, 1, Len(v)), values |-> v] :
        v \in SeqsUpTo({0 - 13, 0, 52}, MaxValues)}
    \cup {[labels |-> SubSeq(WaterfallLabels, 1, Len(v)), values |-> v, is_total |-> t] :
             v \in SeqsUpTo({0 - 13, 0, 52}, MaxValues),
             t \in SeqsUpTo(BOOLEAN, MaxValues)}

RenderWaterfall ==
    /\ pc = "helper"
    /\ \E data \in WaterfallData, config \in {EmptyDict, [value_suffix |-> "%"]} :
          Returned([op |-> "render_waterfall", data |-> data, config |-> config,
                    fig |-> render_waterfall(data, config)])

\* --------------------------------------------------------------------------
\* charts.py: render_hbar
\* --------------------------------------------------------------------------
\* the chart colours of two registered palettes (a light and a dark one)
ChartPalettes ==
    {[name |-> "crossinvest_navy_gold", chart_primary |-> "#24618e",
      green |-> "#2E865F", red |-> "#C0392B"],
     [name |-> "crossinvest_dark", chart_primary |-> "#00D4FF",
      green |-> "#00E676", red |-> "#FF5252"]}

\* the colour render_hbar gives the bar of value v (v in tenths: the
\* thresholds -5 and 5 are -50 and 50)
HbarColor(palette, v) ==
    IF v < 0 - 50 THEN palette.red
    ELSE IF v < 0 THEN "#E57373"
    ELSE IF v < 50 THEN palette.green
    ELSE palette.chart_primary

\* render_hbar up to the go.Bar trace
render_hbar(data, config, palette) ==
    LET labels == data["labels"]
        values == data["values"]
        prefix == Get(config, "value_prefix", "$")
        suffix == Get(config, "value_suffix", "Bn")
    IN  [x      |-> values,
         y      |-> labels,
         colors |-> [i \in 1..Len(values) |-> HbarColor(palette, values[i])],
         text   |-> IF Get(config, "show_values", TRUE)
                    THEN <<[i \in 1..Len(values) |->
                               prefix \o FormatSigned1f(values[i]) \o suffix]>>
                    ELSE <<>>]

HbarLabels == <<"China Equity", "US Large Cap", "Europe Equity", "Japan", "EM">>

\* up to MaxValues values on either side of 0 and of the thresholds
HbarData ==
    {[labels |-> SubSeq(HbarLabels, 1, Len(v)), values |-> v] :
        v \in SeqsUpTo({0 - 64, 0 - 50, 0 - 30, 0, 42, 50}, MaxValues)}

RenderHbar ==
    /\ pc = "helper"
    /\ \E data \in HbarData, palette \in ChartPalettes,
          config \in {[xlabel |-> "Weekly Fund Flows ($Bn)"], [show_values |-> FALSE]} :
          Returned([op |-> "render_hbar", data |-> data, config |-> config,
                    palette |-> palette, fig |-> render_hbar(data, config, palette)])

\* --------------------------------------------------------------------------
\* charts.py: render_small_multiples
\* --------------------------------------------------------------------------
\* max(s) and min(s) of a non-empty list
SeqMax(s) == CHOOSE m \in {s[i] : i \in 1..Len(s)} : \A i \in 1..Len(s) : s[i] <= m

SeqMin(s) == CHOOSE m \in {s[i] : i \in 1..Len(s)} : \A i \in 1..Len(s) : m <= s[i]

\* [v for p in panels for v in p.get("values", [])], from panel i on
RECURSIVE AllVals(_, _)
AllVals(panels, i) ==
    IF i > Len(panels) THEN <<>>
    ELSE Get(panels[i], "values", <<>>) \o AllVals(panels, i + 1)

\* the entry of panel_ranges for the panel p
PanelRange(p) ==
    LET pv == Get(p, "values", <<>>)
    IN  IF pv # <<>>
        THEN (IF SeqMax(pv) - SeqMin(pv) > 0 THEN SeqMax(pv) - SeqMin(pv) ELSE 1)
        ELSE 1

\* a test that lets a ratio of exactly 10 pass
RatioBelowTen_Inclusive(max_range, min_range) == max_range <= 10 * min_range

\* "ratio < 10" for ratio = max_range / min_range (min_range > 0: every
\* panel range is positive)
RatioBelowTen(max_range, min_range) == max_range < 10 * min_range

\* render_small_multiples up to the Y ranges of the panels: the grid, whether
\* the panels share a Y range, and the range given to each panel (<<>> when
\* the axis is left to Plotly).  global_ylim is in tenths: the margin is a
\* tenth of the span of all values, or 1 when that span is 0.
render_small_multiples(data, config) ==
    LET panels == data["panels"]
        n      == Len(panels)
        ncols  == Get(config, "ncols", Min(4, n))
    IN  IF ncols = 0
        THEN [exc |-> [cls |-> "ZeroDivisionError",
                       text |-> "integer division or modulo by zero"],
              nrows |-> 0, use_shared_y |-> FALSE, yranges |-> <<>>]
        ELSE LET shared_y == IF "shared_y" \in DOMAIN config
                             THEN <<config["shared_y"]>> ELSE <<>>  \* <<>> is None
                 all_vals == AllVals(panels, 1)
                 panel_ranges == [i \in 1..n |-> PanelRange(panels[i])]
                 use_shared_y ==
                     IF all_vals # <<>> /\ shared_y # <<FALSE>>
                     THEN shared_y = <<TRUE>>
                          \/ RatioBelowTen(SeqMax(panel_ranges), SeqMin(panel_ranges))
                     ELSE FALSE
                 span   == SeqMax(all_vals) - SeqMin(all_vals)
                 margin == IF span = 0 THEN 10 ELSE span
             IN  [exc |-> NoExc,
                  nrows |-> (n + ncols - 1) \div ncols,
                  use_shared_y |-> use_shared_y,
                  yranges |-> [i \in 1..n |->
                                  IF use_shared_y
                                  THEN <<<<10 * SeqMin(all_vals) - margin,
                                           10 * SeqMax(all_vals) + margin>>>>
                                  ELSE <<>>]]

\* panels: without values, with an empty list, with one value, and with
\* spans 2, 9, 10, 19 and 20
PanelValues ==
    {<<>>, <<5>>, <<3, 1>>, <<0, 9>>, <<10, 0>>, <<1, 20>>, <<0, 20>>}

SmallMultiplesPanels ==
    {[title |-> "US"]}
    \cup {[title |-> "US", values |-> v] : v \in PanelValues}

SmallMultiplesConfigs ==
    {[chart_type |-> "line"], [shared_y |-> TRUE], [shared_y |-> FALSE]}

RenderSmallMultiples ==
    /\ pc = "helper"
    /\ \E panels \in SeqsUpTo(SmallMultiplesPanels, MaxPanels),
          config \in SmallMultiplesConfigs :
          Returned([op |-> "render_small_multiples", data |-> [panels |-> panels],
                    config |-> config,
                    fig |-> render_small_multiples([panels |-> panels], config)])

\* --------------------------------------------------------------------------
\* pptx-assembler.py: assemble
\* --------------------------------------------------------------------------
\* The disk as assemble sees it: disk.png is the set of paths that hold a
\* PNG image, disk.other the set of paths that exist without being an image
\* (add_picture raises on them); every other path does not exist.

\* one pass of the loop that counts a slide for a missing screenshot too
AssembleStep_CountMissing(acc, png_path, disk) ==
    IF png_path \in disk.other
    THEN [acc EXCEPT !.exc = [cls |-> "UnidentifiedImageError",
                              text |-> "cannot identify image file"]]
    ELSE [acc EXCEPT !.prs = IF png_path \in disk.png
                             THEN Append(@, [picture |-> png_path]) ELSE @,
                     !.slide_count = @ + 1]

\* one pass of the loop "for png_path in screenshots"
AssembleStep(acc, png_path, disk) ==
    IF png_path \notin disk.png \cup disk.other
    THEN [acc EXCEPT !.stderr =
             Append(@, "WARNING: Screenshot not found: " \o png_path)]
    ELSE IF png_path \in disk.other
    THEN [acc EXCEPT !.exc = [cls |-> "UnidentifiedImageError",
                              text |-> "cannot identify image file"]]
    ELSE [acc EXCEPT !.prs = Append(@, [picture |-> png_path]),
                     !.slide_count = @ + 1]

\* the loop over screenshots[i..]; an exception leaves it
RECURSIVE AssembleLoop(_, _, _, _)
AssembleLoop(screenshots, i, acc, disk) ==
    IF i > Len(screenshots) \/ acc.exc # NoExc
    THEN acc
    ELSE AssembleLoop(screenshots, i + 1, AssembleStep(acc, screenshots[i], disk), disk)

\* the end of assemble: acc is where the loop stopped
AssembleSave(acc, output_path) ==
    IF acc.exc # NoExc
    THEN [exc |-> acc.exc, result |-> EmptyDict, stderr |-> acc.stderr, saved |-> <<>>]
    ELSE [exc |-> NoExc,
          result |-> [success |-> TRUE, path |-> output_path,
                      slides |-> acc.slide_count],
          stderr |-> acc.stderr,
          saved |-> <<[path |-> output_path, slides |-> acc.prs]>>]

\* assemble(screenshots, output_path)
assemble(screenshots, output_path, disk) ==
    AssembleSave(AssembleLoop(screenshots, 1,
                     [prs |-> <<>>, slide_count |-> 0, stderr |-> <<>>, exc |-> NoExc],
                     disk),
                 output_path)

\* the paths listed as screenshots, and the disks they are looked up on
ScreenshotPaths ==
    {"/tmp/s/slide_000.png", "/tmp/s/slide_001.png", "/tmp/s/slide_002.png",
     "/tmp/s/notes.txt"}

ScreenshotDisks ==
    {[png |-> S, other |-> {"/tmp/s/notes.txt"}] :
        S \in SUBSET (ScreenshotPaths \ {"/tmp/s/notes.txt"})}

Assemble ==
    /\ pc = "helper"
    /\ \E screenshots \in SeqsUpTo(ScreenshotPaths, MaxScreenshots),
          disk \in ScreenshotDisks :
          Returned([op |-> "assemble", screenshots |-> screenshots, disk |-> disk,
                    out |-> assemble(screenshots, "/tmp/assembled.pptx", disk)])

\* --------------------------------------------------------------------------
\* engine.py: _normalize_table_heatmap called on its own
\* --------------------------------------------------------------------------
\* rows of a table: two data rows and the two spellings of a separator row
TableRows == {<<"US", "+1.2%">>, <<"Europe", "-0.4%">>, <<"---">>, <<EmDash, "">>}

\* the data of a table_heatmap: with or without rows, headers (2 or 6) and
\* a separators list given by the caller
TableData ==
    {[headers |-> <<"Market", "1W">>]}
    \cup {[headers |-> h, rows |-> r] :
             h \in {<<"Market", "1W">>,
                    <<"Asset", "Level", "1W", "MTD", "YTD", "Signal">>},
             r \in SeqsUpTo(TableRows, MaxRows)}
    \cup {[rows |-> r, separators |-> <<7>>] : r \in SeqsUpTo(TableRows, MaxRows)}

\* configs of a table_heatmap: each of col_widths, color_cols and signal_col
\* configured or not
TableConfigs ==
    {[title |-> "Scoreboard"],
     [color_cols |-> <<1, 2>>],
     [signal_col |-> 3],
     [color_cols |-> <<1, 2>>, signal_col |-> 3],
     [col_widths |-> <<20, 10, 10, 10, 10, 10>>],
     [col_widths |-> <<20, 10, 10, 10, 10, 10>>, color_cols |-> <<1, 2>>, signal_col |-> 3]}

TableChartSpecs ==
    {[type |-> "table_heatmap"]}
    \cup {[type |-> "table_heatmap", data |-> d] : d \in TableData}
    \cup {[type |-> "table_heatmap", config |-> c,
           data |-> [headers |-> h, rows |-> <<<<"US", "+1.2%">>, <<"---">>>>]] :
             c \in TableConfigs,
             h \in {<<"Market", "1W">>,
                    <<"Asset", "Level", "1W", "MTD", "YTD", "Signal">>}}

\* _normalize_table_heatmap(chart_spec): the chart spec is changed in place
NormalizeTableHeatmap ==
    /\ pc = "helper"
    /\ \E chart_spec \in TableChartSpecs :
          Returned([op |-> "_normalize_table_heatmap", before |-> chart_spec,
                    after |-> normalize_table_heatmap(chart_spec)])

\* --------------------------------------------------------------------------
\* charts.py: render_table_heatmap, as the "chart" branch of generate calls it
\* --------------------------------------------------------------------------
\* the attributes of the default palette that render_table_heatmap reads (a
\* light palette: fig_bg is "#FFFFFF")
TablePalette ==
    [navy |-> "#24618e", white |-> "#FFFFFF", body_text |-> "#2C3E50",
     gray |-> "#6C757D", orange |-> "#D46A28", chart_secondary |-> "#3566bb",
     green |-> "#2E865F", red |-> "#C0392B"]

\* val_str.startswith(c) for a one-character c
StartsWith(val_str, c) == Len(val_str) >= 1 /\ SubSeq(val_str, 1, 1) = c

\* val_color of render_table_heatmap for a light palette
val_color(palette, val_str, is_signal) ==
    IF is_signal
    THEN (IF val_str = "Overbought" THEN "#FFF3E0"
          ELSE IF val_str = "Oversold" THEN "#E3F2FD"
          ELSE palette.white)
    ELSE IF val_str = "" \/ val_str = EmDash THEN palette.white
    ELSE IF StartsWith(val_str, "+") THEN "#E8F5E9"
    ELSE IF StartsWith(val_str, "-") THEN "#FFEBEE"
    ELSE palette.white

\* text_color of render_table_heatmap
text_color(palette, val_str, is_signal) ==
    IF is_signal
    THEN (IF val_str = "Overbought" THEN palette.orange
          ELSE IF val_str = "Oversold" THEN palette.chart_secondary
          ELSE palette.gray)
    ELSE IF val_str = "" \/ val_str = EmDash THEN palette.body_text
    ELSE IF StartsWith(val_str, "+") THEN palette.green
    ELSE IF StartsWith(val_str, "-") THEN palette.red
    ELSE palette.body_text

\* the test that makes row i (0-based) of the table a separator row
IsSeparatorRow(i, row, separators) ==
    i \in separators \/ (Len(row) > 0 /\ row[1] = "")

\* render_table_heatmap up to the go.Table trace, for a light palette: one
\* record per row of data["rows"] with its fill and font colours (separator
\* tells which branch of the loop coloured the row).  Listing the cells by
\* column reads one cell per header from every row: an IndexError when a
\* row is shorter than the headers.
render_table_heatmap(data, config, palette) ==
    LET headers    == data["headers"]
        rows       == data["rows"]
        separators == {Get(data, "separators", <<>>)[k] :
                          k \in 1..Len(Get(data, "separators", <<>>))}
        color_cols == IF "color_cols" \in DOMAIN config
                      THEN {config["color_cols"][k] : k \in 1..Len(config["color_cols"])}
                      ELSE 3..(Len(headers) - 1)
        signal_col == Get(config, "signal_col", Len(headers) - 1)
    IN  IF \E i \in 1..Len(rows) : Len(rows[i]) < Len(headers)
        THEN [exc |-> [cls |-> "IndexError", text |-> "list index out of range"],
              rows |-> <<>>]
        ELSE [exc |-> NoExc,
              rows |-> [i \in 1..Len(rows) |->
                  IF IsSeparatorRow(i - 1, rows[i], separators)
                  THEN [separator |-> TRUE,
                        cells |-> rows[i],
                        fill |-> [j \in 1..Len(rows[i]) |-> palette.white],
                        font |-> [j \in 1..Len(rows[i]) |-> palette.body_text]]
                  ELSE [separator |-> FALSE,
                        cells |-> rows[i],
                        fill |-> [j \in 1..Len(rows[i]) |->
                                    IF (j - 1) \in color_cols
                                    THEN val_color(palette, rows[i][j], j - 1 = signal_col)
                                    ELSE palette.white],
                        font |-> [j \in 1..Len(rows[i]) |->
                                    IF (j - 1) \in color_cols
                                    THEN text_color(palette, rows[i][j], j - 1 = signal_col)
                                    ELSE palette.body_text]]]]

\* rows of a three-column scoreboard: two data rows and two separator rows
ScoreboardRows ==
    {<<"US", "+1.2%", "Overbought">>, <<"Europe", "-0.4%", "Oversold">>,
     <<"---">>, <<EmDash, "", "">>}

\* table_heatmap chart specs of a "chart" slide
ScoreboardChartSpecs ==
    {[type |-> "table_heatmap",
      data |-> [headers |-> <<"Market", "1W", "Signal">>, rows |-> r],
      config |-> [color_cols |-> <<1, 2>>]] : r \in SeqsUpTo(ScoreboardRows, MaxRows)}

\* the "chart" branch of generate for a table_heatmap chart spec, from the
\* normalization to the figure: render_chart hands the data and the config
\* of the normalized chart spec to render_table_heatmap
ChartSlideTableHeatmap ==
    /\ pc = "helper"
    /\ \E chart_spec \in ScoreboardChartSpecs :
          LET normalized == TableHeatmapStep(normalize_chart_spec(chart_spec))
          IN  Returned([op |-> "chart slide: table_heatmap", before |-> chart_spec,
                        after |-> normalized,
                        fig |-> render_table_heatmap(
                                    Get(normalized, "data", EmptyDict),
                                    Get(normalized, "config", EmptyDict),
                                    TablePalette)])

NextHelpers ==
    \/ SetupMatplotlib
    \/ NormalizeChartSpec
    \/ RenderReturnQuilt
    \/ RenderWaterfall
    \/ RenderHbar
    \/ RenderSmallMultiples
    \/ Assemble
    \/ NormalizeTableHeatmap
    \/ ChartSlideTableHeatmap

SpecHelpers == InitHelpers /\ [][NextHelpers]_vars

\* --------------------------------------------------------------------------
\* Vocabulary of the claims
\* --------------------------------------------------------------------------
\* the slide types generate dispatches, each with its builder
BuilderOfType ==
    [ cover             |-> "build_cover",
      executive_summary |-> "build_executive_summary",
      chart             |-> "build_chart_slide",
      text              |-> "build_text_slide",
      sources           |-> "build_sources_slide",
      section_divider   |-> "build_section_divider",
      kpi_dashboard     |-> "build_kpi_dashboard",
      news              |-> "build_news_slide",
      image             |-> "build_image_slide",
      dual_chart        |-> "build_dual_chart_slide",
      callout           |-> "build_callout_slide",
      back_cover        |-> "build_back_cover" ]

DispatchedSlideTypes == DOMAIN BuilderOfType

\* the type of a slide spec; a slide spec without "type" is a text slide
TypeOfSlide(s) == IF "type" \in DOMAIN s THEN s["type"] ELSE "text"

\* the chart specs a slide spec asks generate to render
ChartsOfSlide(s) ==
    IF TypeOfSlide(s) = "chart"
    THEN <<IF "chart" \in DOMAIN s THEN s["chart"] ELSE EmptyDict>>
    ELSE IF TypeOfSlide(s) = "dual_chart" /\ "charts" \in DOMAIN s
         THEN s["charts"]
         ELSE <<>>

\* a chart spec render_chart has no renderer for
Unrenderable(cs) == "type" \notin DOMAIN cs \/ cs["type"] \notin ChartTypes

\* generate has been called on a JSON object
GenerateCalled == call.op = "generate" /\ call.spec.type = "dict"

\* ... and has returned
GenerateReturned == GenerateCalled /\ call.exc = NoExc

\* the list of slide specs of that call
CalledSlides ==
    IF "slides" \in DOMAIN call.spec.items THEN call.spec.items["slides"] ELSE <<>>

\* positions of the slide specs with a dispatched type
KnownPositions ==
    {i \in 1..Len(CalledSlides) : TypeOfSlide(CalledSlides[i]) \in DispatchedSlideTypes}

RECURSIVE SumLen(_, _)
SumLen(slides, i) ==
    IF i > Len(slides) THEN 0
    ELSE Len(ChartsOfSlide(slides[i])) + SumLen(slides, i + 1)

C2_ChartCount ==
    GenerateReturned =>
        /\ call.result.charts = Len(call.locals.renders)
        /\ call.result.charts = SumLen(CalledSlides, 1)

\* a chart slide, a dual_chart slide with two charts, and a slide without chart
C2_Witness ==
    /\ GenerateReturned
    /\ call.result.charts = 3
    /\ \E i, j, k \in 1..Len(CalledSlides) :
          /\ TypeOfSlide(CalledSlides[i]) = "chart"
          /\ TypeOfSlide(CalledSlides[j]) = "dual_chart"
          /\ TypeOfSlide(CalledSlides[k]) = "sources"

\* --------------------------------------------------------------------------
\* C3
\* --------------------------------------------------------------------------
\* C3: the deck written by generate holds one slide per slide spec with a
\* known type, in the order of the slide specs: its k-th slide was built, by
\* the builder of that type, from the k-th slide spec that has a known type.
C3_DeckOrder ==
    GenerateReturned =>
        /\ files.deck # <<>>
        /\ LET deck == files.deck[1].slides
           IN  /\ Len(deck) = Cardinality(KnownPositions)
               /\ \A k \in 1..Len(deck) :
                     /\ deck[k].src \in KnownPositions
                     /\ Cardinality({i \in KnownPositions : i <= deck[k].src}) = k
                     /\ deck[k].builder =
                           BuilderOfType[TypeOfSlide(CalledSlides[deck[k].src])]

\* three slide specs, the middle one skipped: the deck's second slide comes
\* from the third slide spec
C3_Witness ==
    /\ GenerateReturned
    /\ files.deck # <<>>
    /\ Len(CalledSlides) = 3
    /\ TypeOfSlide(CalledSlides[2]) = "unknown_slide_type"
    /\ Len(files.deck[1].slides) = 2
    /\ files.deck[1].slides[1].builder = "build_chart_slide"
    /\ files.deck[1].slides[2].builder = "build_cover"

\* --------------------------------------------------------------------------
\* C4
\* --------------------------------------------------------------------------
Exited == pc = "exited"

\* C4: on every path through main exactly one JSON object is printed, the
\* exit status is 0 if and only if that object has success = true, and every
\* object with success = false carries an error string and slides = 0,
\* charts = 0.
C4_OneResultPerRun ==
    Exited =>
        /\ Len(stdout) = 1
        /\ exit_status \in {<<0>>, <<1>>}
        /\ (exit_status = <<0>>) <=> (stdout[1].success = TRUE)
        /\ stdout[1].success = FALSE =>
              /\ DOMAIN stdout[1] = {"success", "error", "slides", "charts"}
              /\ Len(stdout[1].error) > 0
              /\ stdout[1].slides = 0
              /\ stdout[1].charts = 0

\* the path on which generate raises before it looks at any slide: the text
\* is valid JSON but not an object
C4_Witness ==
    /\ Exited
    /\ call.op = "generate"
    /\ call.spec.type = "list"
    /\ call.exc.cls = "AttributeError"
    /\ exit_status = <<1>>

\* --------------------------------------------------------------------------
\* C5
\* --------------------------------------------------------------------------
\* what main does with a text it reports as invalid JSON
ReportsInvalidJSON ==
    /\ Len(stdout) = 1
    /\ stdout[1].success = FALSE
    /\ Contains(stdout[1].error, "Invalid JSON")
    /\ exit_status # <<0>>
    /\ call = NoCall
    /\ files = NoFiles

\* C5 as stated: whenever the text on stdin is not valid JSON, main prints
\* success = false with an error containing 'Invalid JSON', exits non-zero
\* and never calls generate.
C5_AsClaimed ==
    (Exited /\ stdin.json = <<>>) => ReportsInvalidJSON

\* C5 (amended): whenever the text on stdin is not blank (not empty and not
\* only whitespace) and is not valid JSON, main prints success = false with
\* an error containing 'Invalid JSON', exits non-zero and never calls
\* generate (no deck and no chart directory is created).
C5_MalformedJSON ==
    (Exited /\ stdin.json = <<>> /\ Strip(stdin.text) # "") => ReportsInvalidJSON

C5_Witness ==
    /\ Exited
    /\ stdin.text = "not valid json {{{"
    /\ stdout[1].error = "Invalid JSON: Expecting value: line 1 column 1 (char 0)"

\* --------------------------------------------------------------------------
\* C6
\* --------------------------------------------------------------------------
\* C6: when generate raises while processing a slide, main reports success =
\* false with error = the exception text and slides = 0, charts = 0, whatever
\* had been built before the failure, and exits with status 1.
C6_GenerateRaises ==
    (Exited /\ GenerateCalled /\ call.exc # NoExc) =>
        /\ stdout = <<[success |-> FALSE, error |-> call.exc.text,
                       slides |-> 0, charts |-> 0]>>
        /\ exit_status = <<1>>

\* slides and charts had been built when the unknown chart type was met
C6_Witness ==
    /\ Exited
    /\ GenerateCalled
    /\ call.exc.text = "Unknown chart type: unknown_type"
    /\ call.locals.slide_count = 2
    /\ call.locals.chart_count = 3
    /\ stdout[1].slides = 0

\* --------------------------------------------------------------------------
\* C7
\* --------------------------------------------------------------------------
\* C7: when stdin is empty or only whitespace, main prints success = false
\* with error 'Empty input' and exits with status 1 without parsing JSON or
\* calling generate; no second JSON object is printed.
C7_EmptyInput ==
    (Exited /\ stdin.text \in {"", " \n"}) =>
        /\ stdout = <<[success |-> FALSE, error |-> "Empty input",
                       slides |-> 0, charts |-> 0]>>
        /\ exit_status = <<1>>
        /\ call = NoCall
        /\ files = NoFiles

C7_Witness ==
    /\ Exited
    /\ stdin.text = " \n"
    /\ Len(stdout) = 1
    /\ stdout[1].error = "Empty input"

\* --------------------------------------------------------------------------
\* C8
\* --------------------------------------------------------------------------
RenderChartCalled == call.op = "render_chart" /\ "type" \in DOMAIN call.chart_spec

\* C8: render_chart dispatches each of the 16 chart types to exactly one
\* renderer, render_<type>, and for every other type string raises ValueError
\* without calling any renderer.
C8_Dispatch ==
    /\ Cardinality(ChartTypes) = 16
    /\ RenderChartCalled =>
          LET t == call.chart_spec["type"]
          IN  /\ t \in ChartTypes =>
                    /\ call.exc = NoExc
                    /\ call.called = <<"render_" \o t>>
              /\ t \notin ChartTypes =>
                    /\ call.exc.cls = "ValueError"
                    /\ call.called = <<>>

C8_Witness ==
    /\ RenderChartCalled
    /\ call.chart_spec["type"] = "small_multiples"
    /\ call.called = <<"render_small_multiples">>

\* --------------------------------------------------------------------------
\* C9
\* --------------------------------------------------------------------------
\* C9: after any sequence of generate calls, get_palette() returns a palette
\* whose navy is '#24618e' and whose gold is '#B8860B'.
C9_AsClaimed ==
    LET palette == PALETTES[get_palette_default(PALETTES)]
    IN  /\ palette.navy = "#24618e"
        /\ palette.gold = "#B8860B"

\* --------------------------------------------------------------------------
\* C10
\* --------------------------------------------------------------------------
\* C10: get_palette returns the registered palette for every name in
\* PALETTES and the default 'crossinvest_navy_gold' palette for every other
\* name.
C10_NamedOrDefault ==
    (call.op = "get_palette" /\ call.arg # <<>>) =>
        LET name == call.arg[1]
        IN  /\ name \in PaletteNames =>
                  /\ call.ref = name
                  /\ call.palette = PALETTES[name]
            /\ name \notin PaletteNames =>
                  /\ call.ref = "crossinvest_navy_gold"
                  /\ call.palette = PALETTES["crossinvest_navy_gold"]

C10_Witness ==
    /\ call.op = "get_palette"
    /\ call.arg = <<"nonexistent">>
    /\ call.ref = "crossinvest_navy_gold"

\* --------------------------------------------------------------------------
\* C11
\* --------------------------------------------------------------------------
\* C11 as stated: setup_matplotlib, called with or without a palette, returns
\* a plotting handle that is not None and whose rcParams have
\* "axes.spines.top" and "axes.spines.right" set to False.
C11_AsClaimed ==
    call.op = "setup_matplotlib" =>
        /\ call.returned # <<>>
        /\ call.returned[1].rcParams["axes.spines.top"] = FALSE
        /\ call.returned[1].rcParams["axes.spines.right"] = FALSE

\* --------------------------------------------------------------------------
\* C12
\* --------------------------------------------------------------------------
NormalizeChartSpecCalled == call.op = "_normalize_chart_spec"

\* C12: when the config of the chart spec carries a reference_line with a
\* value, _normalize_chart_spec leaves a config without "reference_line"
\* whose hlines are the hlines it had before, in their order, followed by
\* exactly one entry with y = the value, the label and the color of the
\* reference line (defaults "" and "#F0B90B") and style "--"; everything
\* else in the config but the annotations stays.  A config without reference_line (or with
\* an empty one, which is only removed) keeps its hlines as they were.
C12_ReferenceLineToHlines ==
    (NormalizeChartSpecCalled /\ "config" \in DOMAIN call.before) =>
        LET before == call.before["config"]
            after  == call.after["config"]
            prior  == IF "hlines" \in DOMAIN before THEN before["hlines"] ELSE <<>>
        IN  /\ "reference_line" \notin DOMAIN after
            /\ \A k \in DOMAIN before \ {"reference_line", "hlines", "annotations"} :
                  k \in DOMAIN after /\ after[k] = before[k]
            /\ IF "reference_line" \in DOMAIN before
                   /\ "value" \in DOMAIN before["reference_line"]
               THEN LET ref == before["reference_line"]
                    IN  /\ "hlines" \in DOMAIN after
                        /\ Len(after["hlines"]) = Len(prior) + 1
                        /\ SubSeq(after["hlines"], 1, Len(prior)) = prior
                        /\ LET e == after["hlines"][Len(prior) + 1]
                           IN  /\ e.y = ref["value"]
                               /\ e.label = (IF "label" \in DOMAIN ref
                                             THEN ref["label"] ELSE "")
                               /\ e.color = (IF "color" \in DOMAIN ref
                                             THEN ref["color"] ELSE "#F0B90B")
                               /\ e.style = "--"
               ELSE /\ ("hlines" \in DOMAIN after) = ("hlines" \in DOMAIN before)
                    /\ "hlines" \in DOMAIN before => after["hlines"] = before["hlines"]

\* a reference line at 0 without label or color, appended after two hlines
C12_Witness ==
    /\ NormalizeChartSpecCalled
    /\ "config" \in DOMAIN call.before
    /\ "reference_line" \in DOMAIN call.before["config"]
    /\ call.before["config"]["reference_line"] = [value |-> 0]
    /\ "hlines" \in DOMAIN call.before["config"]
    /\ Len(call.before["config"]["hlines"]) = 2
    /\ Len(call.after["config"]["hlines"]) = 3

\* --------------------------------------------------------------------------
\* C13
\* --------------------------------------------------------------------------
\* C13: in the grid render_return_quilt builds, the column of every year is a
\* permutation of that year's (asset, return) pairs, listed by non-increasing
\* return from rank 0 on, and the text of every cell names an asset together
\* with the return of that same asset in that year.
C13_RankedGrid ==
    call.op = "render_return_quilt" =>
        LET assets   == call.data["assets"]
            returns  == call.data["returns"]
            n_assets == Len(assets)
        IN  /\ Len(call.fig.z) = n_assets /\ Len(call.fig.text) = n_assets
            /\ \A yi \in 1..Len(call.data["years"]) :
                  /\ \E pi \in Permutations(1..n_assets) :
                        \A rank \in 1..n_assets :
                           /\ call.fig.z[rank][yi] = returns[yi][pi[rank]]
                           /\ call.fig.text[rank][yi] =
                                 assets[pi[rank]] \o "<br>"
                                 \o FormatSigned1f(returns[yi][pi[rank]]) \o "%"
                  /\ \A rank \in 1..(n_assets - 1) :
                        call.fig.z[rank][yi] >= call.fig.z[rank + 1][yi]

\* three assets over two years whose order differs from one year to the next
C13_Witness ==
    /\ call.op = "render_return_quilt"
    /\ call.data["returns"] = <<<<25, 0, 0 - 15>>, <<0 - 15, 25, 0>>>>
    /\ call.fig.text[1] = <<"US Equity<br>+2.5%", "Bonds<br>+2.5%">>
    /\ call.fig.text[3] = <<"Gold<br>-1.5%", "US Equity<br>-1.5%">>

C15_AsClaimed ==
    call.op = "render_hbar" =>
        \A i \in 1..Len(call.data["values"]) :
            /\ call.data["values"][i] > 0 => call.fig.colors[i] = call.palette.green
            /\ call.data["values"][i] < 0 => call.fig.colors[i] = call.palette.red

\* --------------------------------------------------------------------------
\* C16
\* --------------------------------------------------------------------------
SmallMultiplesDrawn == call.op = "render_small_multiples" /\ call.fig.exc = NoExc

\* the values of panel i of the call ("values" may be missing)
ValuesOfPanel(i) ==
    IF "values" \in DOMAIN call.data["panels"][i]
    THEN call.data["panels"][i]["values"]
    ELSE <<>>

\* the range of panel i as the claim counts it: largest minus smallest
\* value, and 1 for a panel without values or with a zero range
ClaimedRange(i) ==
    LET pv == ValuesOfPanel(i)
        S  == {pv[k] : k \in 1..Len(pv)}
    IN  IF S = {} THEN 1
        ELSE LET hi == CHOOSE m \in S : \A x \in S : x <= m
                 lo == CHOOSE m \in S : \A x \in S : m <= x
             IN  IF hi = lo THEN 1 ELSE hi - lo

\* (largest panel range) / (smallest panel range) < 10
RangesComparable ==
    \A i, j \in 1..Len(call.data["panels"]) : ClaimedRange(i) < 10 * ClaimedRange(j)

\* some panel has a value
SomeValue == \E i \in 1..Len(call.data["panels"]) : ValuesOfPanel(i) # <<>>

\* every panel was given the same Y range
SharesOneYRange ==
    /\ call.fig.use_shared_y
    /\ \A i \in 1..Len(call.fig.yranges) :
          call.fig.yranges[i] # <<>> /\ call.fig.yranges[i] = call.fig.yranges[1]

\* no panel was given a Y range
SharesNoYRange ==
    /\ ~call.fig.use_shared_y
    /\ \A i \in 1..Len(call.fig.yranges) : call.fig.yranges[i] = <<>>

\* C16 as stated: with shared_y not set the panels share one Y range exactly
\* when the ranges are comparable; shared_y = true forces sharing and
\* shared_y = false forbids it.
C16_AsClaimed ==
    SmallMultiplesDrawn =>
        IF "shared_y" \notin DOMAIN call.config
        THEN SharesOneYRange <=> RangesComparable
        ELSE IF call.config["shared_y"] THEN SharesOneYRange ELSE SharesNoYRange

\* C16 (amended): when at least one panel has a value, the panels share one
\* Y range exactly when shared_y is true, or shared_y is not set and (largest
\* panel range) / (smallest panel range) < 10, a zero-range or empty panel
\* counting as range 1; otherwise no panel is given a range.  When no panel
\* has any value no Y range is shared, whatever shared_y says.
C16_SharedY ==
    SmallMultiplesDrawn =>
        /\ SharesOneYRange \/ SharesNoYRange
        /\ SharesOneYRange <=>
              /\ SomeValue
              /\ IF "shared_y" \notin DOMAIN call.config
                 THEN RangesComparable
                 ELSE call.config["shared_y"]

\* shared_y not set, panels of range 2, 19 and 9: ratio 9.5, one Y range for
\* the three
C16_Witness ==
    /\ SmallMultiplesDrawn
    /\ "shared_y" \notin DOMAIN call.config
    /\ Len(call.data["panels"]) = 3
    /\ ValuesOfPanel(1) = <<3, 1>>
    /\ ValuesOfPanel(2) = <<1, 20>>
    /\ ValuesOfPanel(3) = <<0, 9>>
    /\ SharesOneYRange
    /\ call.fig.yranges[1] = <<<<0 - 20, 200 + 20>>>>

\* --------------------------------------------------------------------------
\* C17
\* --------------------------------------------------------------------------
AssembleReturned == call.op = "assemble" /\ call.out.exc = NoExc

\* the positions of the screenshots list whose file exists
ExistingShots ==
    {i \in 1..Len(call.screenshots) :
        call.screenshots[i] \in call.disk.png \cup call.disk.other}

\* C17: when assemble returns, success is true, "slides" is the number of
\* entries of the screenshots list whose file exists (an entry listed twice
\* counts twice), the k-th slide of the saved deck shows the k-th such entry,
\* and there is one warning per entry whose file is missing, in list order.
C17_OneSlidePerScreenshot ==
    AssembleReturned =>
        LET deck    == call.out.saved[1].slides
            Missing == (1..Len(call.screenshots)) \ ExistingShots
        IN  /\ call.out.result.success = TRUE
            /\ call.out.result.slides = Cardinality(ExistingShots)
            /\ Len(deck) = Cardinality(ExistingShots)
            /\ \A i \in ExistingShots :
                  deck[Cardinality({j \in ExistingShots : j <= i})].picture
                      = call.screenshots[i]
            /\ Len(call.out.stderr) = Cardinality(Missing)
            /\ \A i \in Missing :
                  call.out.stderr[Cardinality({j \in Missing : j <= i})]
                      = "WARNING: Screenshot not found: " \o call.screenshots[i]

\* the same screenshot listed twice around a missing one: two slides
C17_Witness ==
    /\ AssembleReturned
    /\ call.screenshots = <<"/tmp/s/slide_001.png", "/tmp/s/slide_000.png",
                            "/tmp/s/slide_001.png">>
    /\ call.disk.png = {"/tmp/s/slide_001.png"}
    /\ call.out.result.slides = 2
    /\ Len(call.out.stderr) = 1

\* every screenshot missing: success with no slide
C17_WitnessAllMissing ==
    /\ AssembleReturned
    /\ Len(call.screenshots) = 2
    /\ ExistingShots = {}
    /\ call.out.result = [success |-> TRUE, path |-> "/tmp/assembled.pptx", slides |-> 0]

\* --------------------------------------------------------------------------
\* C18
\* --------------------------------------------------------------------------
\* _normalize_table_heatmap was called on a chart spec that has rows
TableNormalized ==
    /\ call.op = "_normalize_table_heatmap"
    /\ "data" \in DOMAIN call.before
    /\ "rows" \in DOMAIN call.before["data"]

\* the positions of the separator rows in the rows handed in
SeparatorRows ==
    {i \in 1..Len(call.before["data"]["rows"]) :
        call.before["data"]["rows"][i][1] \in {"---", EmDash}}

\* C18: when some row has "---" or an em dash as its first cell, the rows
\* left in data["rows"] are the other rows in their order, and
\* data["separators"] lists, for each removed row in order, the number of
\* other rows that came before it; when no row is a separator, rows and
\* separators are as they were handed in.
C18_SeparatorRows ==
    TableNormalized =>
        LET rows  == call.before["data"]["rows"]
            data  == call.after["data"]
            Clean == (1..Len(rows)) \ SeparatorRows
        IN  IF SeparatorRows # {}
            THEN /\ Len(data["rows"]) = Cardinality(Clean)
                 /\ \A i \in Clean :
                       data["rows"][Cardinality({j \in Clean : j <= i})] = rows[i]
                 /\ "separators" \in DOMAIN data
                 /\ Len(data["separators"]) = Cardinality(SeparatorRows)
                 /\ \A i \in SeparatorRows :
                       data["separators"][Cardinality({j \in SeparatorRows : j <= i})]
                           = Cardinality({j \in Clean : j < i})
            ELSE /\ data["rows"] = rows
                 /\ ("separators" \in DOMAIN data)
                       = ("separators" \in DOMAIN call.before["data"])
                 /\ "separators" \in DOMAIN data =>
                       data["separators"] = call.before["data"]["separators"]

\* a row, both kinds of separator, a row: separators 1, 1
C18_Witness ==
    /\ TableNormalized
    /\ call.before["data"]["rows"] =
          <<<<"US", "+1.2%">>, <<"---">>, <<EmDash, "">>, <<"Europe", "-0.4%">>>>
    /\ call.after["data"]["rows"] = <<<<"US", "+1.2%">>, <<"Europe", "-0.4%">>>>
    /\ call.after["data"]["separators"] = <<1, 1>>

\* --------------------------------------------------------------------------
\* C19
\* --------------------------------------------------------------------------
\* the slide types whose builder is handed a page number
NumberedSlideTypes ==
    {"executive_summary", "chart", "text", "sources", "kpi_dashboard", "news",
     "image", "dual_chart", "callout"}

\* C19: taking the builder calls of a generate call in deck order, the calls
\* made for slides of a numbered type are handed the page numbers 1, 2, 3,
\* ... (the j-th of them gets j), and the calls made for cover,
\* section_divider and back_cover slides are handed none; a slide spec of
\* an unknown type is between two calls without using up a number.
C19_PageNumbers ==
    GenerateCalled =>
        LET prs      == call.locals.prs
            Numbered == {k \in 1..Len(prs) :
                            TypeOfSlide(CalledSlides[prs[k].src]) \in NumberedSlideTypes}
        IN  \A k \in 1..Len(prs) :
                IF k \in Numbered
                THEN /\ "page_num" \in DOMAIN prs[k]
                     /\ prs[k].page_num = Cardinality({j \in Numbered : j <= k})
                ELSE /\ "page_num" \notin DOMAIN prs[k]
                     /\ TypeOfSlide(CalledSlides[prs[k].src])
                           \in {"cover", "section_divider", "back_cover"}

\* a section divider, a slide of an unknown type and a dual_chart slide: the
\* dual_chart slide is page 1
C19_Witness ==
    /\ GenerateReturned
    /\ Len(CalledSlides) = 3
    /\ TypeOfSlide(CalledSlides[1]) = "section_divider"
    /\ TypeOfSlide(CalledSlides[2]) = "unknown_slide_type"
    /\ TypeOfSlide(CalledSlides[3]) = "dual_chart"
    /\ Len(call.locals.prs) = 2
    /\ "page_num" \notin DOMAIN call.locals.prs[1]
    /\ call.locals.prs[2].page_num = 1

\* --------------------------------------------------------------------------
\* C20
\* --------------------------------------------------------------------------
\* the number of charts the slide specs before position i ask for
ChartsBefore(i) == SumLen(CalledSlides, 1) - SumLen(CalledSlides, i)

\* C20: the chart number handed to build_chart_slide (shown by add_chart_tag
\* as "Chart #n") is the slide spec's chart_num when it has one, and
\* otherwise 1 + the number of charts rendered before that slide in the
\* call, those of dual_chart slides and of chart slides with an explicit
\* chart_num included.
C20_ChartNumbers ==
    GenerateCalled =>
        \A k \in 1..Len(call.locals.prs) :
            LET built == call.locals.prs[k]
                from  == CalledSlides[built.src]
            IN  built.builder = "build_chart_slide" =>
                    built.chart_num = IF "chart_num" \in DOMAIN from
                                      THEN from["chart_num"]
                                      ELSE 1 + ChartsBefore(built.src)

\* a dual_chart slide with two charts, a chart slide numbered 7 by its spec,
\* and a chart slide without chart_num: it is chart 4
C20_Witness ==
    /\ GenerateReturned
    /\ Len(CalledSlides) = 3
    /\ TypeOfSlide(CalledSlides[1]) = "dual_chart"
    /\ Len(ChartsOfSlide(CalledSlides[1])) = 2
    /\ Len(call.locals.prs) = 3
    /\ call.locals.prs[2].builder = "build_chart_slide"
    /\ call.locals.prs[2].chart_num = 7
    /\ "chart_num" \notin DOMAIN CalledSlides[3]
    /\ call.locals.prs[3].builder = "build_chart_slide"
    /\ call.locals.prs[3].chart_num = 4

\* --------------------------------------------------------------------------
\* C21
\* --------------------------------------------------------------------------
\* _normalize_chart_spec was called on a chart spec whose config has annotations
AnnotationsNormalized ==
    /\ NormalizeChartSpecCalled
    /\ "config" \in DOMAIN call.before
    /\ "annotations" \in DOMAIN call.before["config"]

\* what the claim makes of the coordinate v on an axis that shows the labels:
\* a string equal to a label becomes the 0-based index of the first such
\* label, any other value stays
ClaimedCoordinate(v, labels) ==
    IF "str" \in DOMAIN v /\ \E k \in 1..Len(labels) : labels[k] = v.str
    THEN [num |-> Cardinality({m \in 1..Len(labels) :
                      \A n \in 1..m : labels[n] # v.str})]
    ELSE v

\* C21: every annotation that has "x" and "y" and no "xy" comes out with an
\* "xy" pair and without "x" and "y", its other fields kept: for bar, line
\* and stacked_bar the x is turned into a label index, for hbar the y, and
\* every other value passes through; an annotation that has "xy", or only
\* one of "x" and "y", comes out as it went in.  The annotations keep their
\* number and order.
C21_AnnotationsToXY ==
    AnnotationsNormalized =>
        LET before == call.before["config"]["annotations"]
            after  == call.after["config"]["annotations"]
            type   == IF "type" \in DOMAIN call.before THEN call.before["type"] ELSE ""
            labels == IF "data" \in DOMAIN call.before
                         /\ "labels" \in DOMAIN call.before["data"]
                      THEN call.before["data"]["labels"] ELSE <<>>
        IN  /\ Len(after) = Len(before)
            /\ \A k \in 1..Len(before) :
                  IF {"x", "y"} \subseteq DOMAIN before[k] /\ "xy" \notin DOMAIN before[k]
                  THEN /\ DOMAIN after[k] = (DOMAIN before[k] \ {"x", "y"}) \cup {"xy"}
                       /\ \A f \in DOMAIN before[k] \ {"x", "y"} :
                             after[k][f] = before[k][f]
                       /\ after[k]["xy"][1] =
                             IF type \in {"bar", "line", "stacked_bar"}
                             THEN ClaimedCoordinate(before[k]["x"], labels)
                             ELSE before[k]["x"]
                       /\ after[k]["xy"][2] =
                             IF type = "hbar"
                             THEN ClaimedCoordinate(before[k]["y"], labels)
                             ELSE before[k]["y"]
                  ELSE after[k] = before[k]

\* a bar chart whose label "Q1" is the second and the fourth label: x = "Q1"
\* becomes 1; the annotation after it has an xy and is left alone
C21_Witness ==
    /\ AnnotationsNormalized
    /\ "type" \in DOMAIN call.before
    /\ call.before["type"] = "bar"
    /\ "reference_line" \notin DOMAIN call.before["config"]
    /\ call.before["config"]["annotations"] =
          <<[text |-> "Peak", x |-> Str("Q1"), y |-> Num(5)],
            [text |-> "Peak", xy |-> <<Num(0), Num(5)>>, x |-> Str("Q1"), y |-> Num(7)]>>
    /\ call.after["config"]["annotations"] =
          <<[text |-> "Peak", xy |-> <<Num(1), Num(5)>>],
            [text |-> "Peak", xy |-> <<Num(0), Num(5)>>, x |-> Str("Q1"), y |-> Num(7)]>>

\* --------------------------------------------------------------------------
\* C22
\* --------------------------------------------------------------------------
\* C22 as stated: _normalize_table_heatmap leaves a color_cols and a
\* signal_col that the config of the chart spec provides as they are.
C22_AsClaimed ==
    (call.op = "_normalize_table_heatmap" /\ "config" \in DOMAIN call.before) =>
        \A k \in {"color_cols", "signal_col"} \cap DOMAIN call.before["config"] :
            call.after["config"][k] = call.before["config"][k]

\* --------------------------------------------------------------------------
\* C23
\* --------------------------------------------------------------------------
\* a table_heatmap chart slide with inline separator rows has been drawn
ScoreboardDrawn ==
    /\ call.op = "chart slide: table_heatmap"
    /\ call.fig.exc = NoExc
    /\ \E i \in 1..Len(call.before["data"]["rows"]) :
          call.before["data"]["rows"][i][1] \in {"---", EmDash}

\* C23 as stated: of the rows drawn for such a slide, none that is a data
\* row of the chart spec (a row whose first cell is neither "---" nor an em
\* dash) is drawn as a separator row, with the plain background and the
\* body text colour in every cell.
C23_AsClaimed ==
    ScoreboardDrawn =>
        \A k \in 1..Len(call.fig.rows) :
            call.fig.rows[k].cells[1] \notin {"---", EmDash}
                => ~call.fig.rows[k].separator


\* every chart spec asked for by the slides of the deck, in slide order
RECURSIVE AskedCharts(_, _)
AskedCharts(slides, i) ==
    IF i > Len(slides)
    THEN {}
    ELSE {ChartsOfSlide(slides[i])[k] : k \in 1..Len(ChartsOfSlide(slides[i]))}
            \cup AskedCharts(slides, i + 1)

\* C24 (as claimed): whatever generate hands to render_chart, from a 'chart'
\* slide or from the 'charts' of a 'dual_chart' slide, is the chart-slide
\* normalization (reference lines, annotations, then the table_heatmap
\* separators and defaults) of a chart spec the deck asked for.
C24_AsClaimed ==
    GenerateCalled =>
        \A k \in 1..Len(call.locals.renders) :
            call.locals.renders[k].chart_spec
                \in {TableHeatmapStep(normalize_chart_spec(cs)) :
                        cs \in AskedCharts(CalledSlides, 1)}

\* C25 (as claimed): on a dual_chart slide built from two chart specs the
\* left picture is the rendering of the first spec and the right picture the
\* rendering of the second.
C25_AsClaimed ==
    GenerateCalled =>
        \A k \in 1..Len(call.locals.prs) :
            LET slide  == call.locals.prs[k]
                charts == ChartsOfSlide(CalledSlides[slide.src])
            IN  (slide.builder = "build_dual_chart_slide" /\ Len(charts) = 2)
                    => /\ Len(slide.pictures) = 2
                       /\ \A j \in 1..2 :
                            slide.pictures[j].chart_spec
                                = normalize_chart_spec(charts[j])

\* slide type strings tried against the dispatch of generate: the twelve it
\* tests for, and names one would give the three remaining builders; every
\* string outside the twelve takes the same else branch
CandidateSlideTypes ==
    DispatchedSlideTypes
        \cup {"editorial", "build_editorial", "quote", "quote_slide",
              "build_quote_slide", "chart_grid", "build_chart_grid"}

\* C26 (as claimed): for every build_* function defined in templates.py there
\* is a slide type for which generate, with the chart images found on disk,
\* calls that builder and counts the slide.
C26_AsClaimed ==
    \A b \in TemplateBuilders :
        \E t \in CandidateSlideTypes :
            LET slide_spec == [type |-> t, chart |-> LibBars[1], charts |-> LibBars]
                st == SlideStep(slide_spec, 1, InitLocals(files.images), "/tmp/genesis_charts")
            IN  /\ st.exc = NoExc
                /\ st.slide_count = 1
                /\ Len(st.prs) = 1
                /\ st.prs[1].builder = b

=============================================================================
